---------------------------- MODULE Spec2Model ----------------------------
(***************************************************************************)
(* A state-machine model of r09_advanced_quantization.py:                  *)
(*   - LayerSensitivityAnalyzer (analyze_layer, analyze_all_layers,        *)
(*     _quantize_weights, _evaluate_accuracy),                             *)
(*   - WeightClusteringQuantizer (quantize_layer_weights,                  *)
(*     dequantize_weights, save_to_fpga_format),                           *)
(*   - logarithmic_quantize_activation, logarithmic_dequantize_activation. *)
(*                                                                         *)
(* Numbers.  Weights are float32 in the program.  The model keeps them on  *)
(* a fixed-point grid: a weight is an integer count of grid units, and the *)
(* cast .astype(np.float32) rounds to the nearest grid point.  The 1e-8    *)
(* added to a denominator is an infinitesimal: it decides which way an     *)
(* exact tie rounds, and it keeps a zero range from dividing by zero.      *)
(*                                                                         *)
(* Keras (get_layer, get_weights, set_weights, predict) and scikit-learn   *)
(* (KMeans) are libraries the program calls.  predict is a deterministic   *)
(* function of the installed weights whose values the model leaves open:   *)
(* the first evaluation of a weight configuration draws its accuracy, and  *)
(* every later evaluation of the same configuration returns that value.    *)
(* predict may also raise.                                                 *)
(***************************************************************************)
EXTENDS Integers, Sequences, FiniteSets, TLC

VARIABLES
    component,        \* which object this run exercises: "analyzer" | "clustering" |
                      \* "uniform" (_quantize_weights called on its own) |
                      \* "report" (the compression report of quantize_layer_weights) |
                      \* "activation" (the logarithmic quantizer of activations) |
                      \* "config" (generate_mixed_precision_config)
    weights,          \* model: layer name -> list of weight tensors now installed
    n_images,         \* len(self.test_images)
    sensitivity_map,  \* self.sensitivity_map: layer name -> record
    map_order,        \* the keys of self.sensitivity_map in the order a dict iterates them
    pc,               \* "idle" | "sweep" (in analyze_layer's loop) | "all" (in analyze_all_layers' loop)
    frame,            \* locals of the running analyze_layer call
    all_rest,         \* analyze_all_layers: layer names still to analyse
    in_all,           \* TRUE while analyze_all_layers is running
    outcome,          \* what the last finished call returned or raised
    oracle,           \* predict: weight configuration -> number of correct images
    n_calls,          \* calls made by the caller so far (analyzer, clustering)
    n_raises,         \* forward passes that raised so far
    num_clusters,     \* WeightClusteringQuantizer.num_clusters
    codebooks,        \* WeightClusteringQuantizer.codebooks: layer name -> codebook
    indices,          \* WeightClusteringQuantizer.indices: layer name -> index tensor
    key_order,        \* the keys of codebooks in the order a dict iterates them
    np_random,        \* state of numpy's global random generator
    q_outcome,        \* what the last quantize_layer_weights call returned or raised
    d_outcome,        \* arguments and result of the last dequantize_weights call
    fs,               \* the file system: directories, and path -> file content
    s_outcome,        \* the save_to_fpga_format call completed since the last
                      \* quantize_layer_weights call, if any
    probe,            \* arguments and results of the last calls of a pure function
    hist              \* observations used to state the properties (never read by the program)

analyzerVars == <<weights, n_images, sensitivity_map, map_order, pc, frame, all_rest,
                  in_all, outcome, oracle, n_raises>>

clusterVars == <<num_clusters, codebooks, indices, key_order, np_random, q_outcome,
                 d_outcome, fs, s_outcome>>

vars == <<component, analyzerVars, clusterVars, probe, n_calls, hist>>

-----------------------------------------------------------------------------
(* Bounds of the model *)

MaxCalls == 2
MaxQCalls == 3
MaxRaises == MaxCalls - 1
NumImages == 100

(* Program constants *)

DefaultBitMin == 4
DefaultBitMax == 16
ThresholdPct == 99

NaN == -1

AccVals == {NumImages - 2, NumImages - 1, NumImages}

-----------------------------------------------------------------------------
(* Tensors: rank 0 is a numpy scalar (shape ()), rank 1 a flattened array *)

T0(x) == [rank |-> 0, v |-> <<x>>]
T1(s) == [rank |-> 1, v |-> s]

ModelLayers == <<"conv1_dw", "bn1", "conv1_pw">>

InitWeights ==
    [n \in {ModelLayers[i] : i \in 1..Len(ModelLayers)} |->
        CASE n = "conv1_dw" -> <<T1(<<0, 9, 40>>), T1(<<1, 2, 9>>)>>
          [] n = "bn1"      -> <<T1(<<8, 8>>)>>
          [] n = "conv1_pw" -> <<T1(<<0, 3, 16>>), T0(5)>>]

LayerNameInputs == {"conv1_dw", "bn1", "fc_out"}

Chars(name) ==
    CASE name = "conv1_dw" -> <<"c","o","n","v","1","_","d","w">>
      [] name = "bn1"      -> <<"b","n","1">>
      [] name = "conv1_pw" -> <<"c","o","n","v","1","_","p","w">>
      [] name = "fc_out"   -> <<"f","c","_","o","u","t">>
      [] name = "depthwise_conv2d" ->
            <<"d","e","p","t","h","w","i","s","e","_","c","o","n","v","2","d">>
      [] name = "conv1_dw_proj" ->
            <<"c","o","n","v","1","_","d","w","_","p","r","o","j">>

\* Python's  sub in s  on strings
Contains(sub, s) ==
    \E i \in 0..(Len(s) - Len(sub)) :
        \A j \in 1..Len(sub) : s[i + j] = sub[j]

IsConvName(n) == Contains(<<"c","o","n","v">>, Chars(n))

\* a defect: the layers are collected in reverse declaration order
layer_names_reversed ==
    LET conv == SelectSeq(ModelLayers, IsConvName)
    IN  [i \in 1..Len(conv) |-> conv[Len(conv) + 1 - i]]

\* __init__: self.layer_names
layer_names == SelectSeq(ModelLayers, IsConvName)

\* model.get_layer(name): the layer, or ValueError when the model has none of that name
HasLayer(name) == \E i \in 1..Len(ModelLayers) : ModelLayers[i] = name

BitRangeInputs == {<<DefaultBitMin, DefaultBitMax>>, <<2, 4>>, <<3, 3>>, <<3, 2>>}

\* the calls of analyze_layer(layer_name, bit_range) the caller makes: every
\* range on a convolution, one range on another layer and on a name the
\* model does not have
AnalyzeCallInputs ==
    ({"conv1_dw"} \X BitRangeInputs)
        \cup {<<name, <<2, 4>>>> : name \in LayerNameInputs \ {"conv1_dw"}}

-----------------------------------------------------------------------------
(* _quantize_weights *)

\* a defect: 2 * bits is written for 2 ** bits
Pow2_times(n) == 2 * n

RECURSIVE Pow2(_)
Pow2(n) == IF n = 0 THEN 1 ELSE 2 * Pow2(n - 1)

SeqMin(s) == CHOOSE x \in {s[i] : i \in 1..Len(s)} : \A j \in 1..Len(s) : x <= s[j]
SeqMax(s) == CHOOSE x \in {s[i] : i \in 1..Len(s)} : \A j \in 1..Len(s) : x >= s[j]

\* the weights are multiples of 1e-7: the 1e-8 of line 108 is 1 / EpsInv of
\* the unit
EpsInv == 10

\* np.round(n / d) for n >= 0, d > 0: to the nearest integer, a tie to the
\* even one
RoundHalfEven(n, d) ==
    LET q == n \div d
        r == n % d
    IN  IF 2 * r < d THEN q
        ELSE IF 2 * r > d THEN q + 1
        ELSE IF q % 2 = 0 THEN q ELSE q + 1

\* a defect: the product is truncated, not rounded
QuantCode_trunc(a, levels, rng) == (EpsInv * a * levels) \div (EpsInv * rng + 1)

\* lines 108, 111: np.round((w - w_min) * scale).astype(np.int32) with
\* scale = levels / (rng + 1e-8), for a = w - w_min
QuantCode(a, levels, rng) == RoundHalfEven(EpsInv * a * levels, EpsInv * rng + 1)

\* line 114: (w_quant / scale + w_min).astype(np.float32), the multiple of
\* the unit nearest to code * (rng + 1e-8) / levels + w_min
Dequant(code, levels, rng, w_min) ==
    ((2 * code * (EpsInv * rng + 1) + EpsInv * levels) \div (2 * EpsInv * levels)) + w_min

\* line 111: w_quant, the codes of a tensor that is not a scalar
w_quant(w, bits) ==
    LET w_min == SeqMin(w.v)
        w_max == SeqMax(w.v)
        levels == Pow2(bits) - 1
        rng == w_max - w_min
    IN  [i \in 1..Len(w.v) |-> QuantCode(w.v[i] - w_min, levels, rng)]

QuantizeTensor(w, bits) ==
    IF w.rank = 0
    THEN w
    ELSE LET w_min == SeqMin(w.v)
             w_max == SeqMax(w.v)
             levels == Pow2(bits) - 1
             rng == w_max - w_min
         IN  [rank |-> w.rank,
              v |-> [i \in 1..Len(w.v) |->
                        Dequant(QuantCode(w.v[i] - w_min, levels, rng),
                                levels, rng, w_min)]]

quantize_weights(ws, bits) == [i \in 1..Len(ws) |-> QuantizeTensor(ws[i], bits)]

\* _quantize_weights called on its own: the weight lists and bit-widths tried
UniformWeightInputs ==
    { <<T1(<<0, 160, 480>>)>>,
      <<T1(<<0, 90, 400>>), T1(<<10, 20, 90>>)>>,
      <<T1(<<-70, 30, 160>>), T0(5)>>,
      <<T1(<<80, 80>>)>> }

UniformBitInputs == 1..6 \cup {16}

\* the weights [-1.0, 1.0], quantized to 2 bits
ExampleWeights == <<T1(<<-10000000, 10000000>>)>>

UniformCallInputs == (UniformWeightInputs \X UniformBitInputs) \cup {<<ExampleWeights, 2>>}

NoProbe == [op |-> "none", weights |-> <<>>, images |-> [b \in {} |-> <<>>],
            codes |-> [b \in {} |-> <<>>]]

\* the codes of every tensor of the list, none for a scalar
Codes(ws, bits) ==
    [i \in 1..Len(ws) |-> IF ws[i].rank = 0 THEN <<>> ELSE w_quant(ws[i], bits)]

\* the caller calls _quantize_weights(ws, bits); probe keeps the images of
\* ws, and the codes they come from, at the bit-widths tried since ws was
\* first passed
call_quantize_weights(ws, bits) ==
    /\ component = "uniform"
    /\ probe' = [op |-> "_quantize_weights",
                 weights |-> ws,
                 images |-> [b \in (IF probe.weights = ws THEN DOMAIN probe.images ELSE {})
                                      \cup {bits} |->
                                IF b = bits THEN quantize_weights(ws, bits)
                                ELSE probe.images[b]],
                 codes |-> [b \in (IF probe.weights = ws THEN DOMAIN probe.codes ELSE {})
                                      \cup {bits} |->
                                IF b = bits THEN Codes(ws, bits)
                                ELSE probe.codes[b]]]
    /\ UNCHANGED <<component, analyzerVars, clusterVars, n_calls, hist>>



-----------------------------------------------------------------------------
(* analyze_layer: selection of optimal_bits (lines 80-88) *)

\* a defect: the threshold factor is left out
MeetsThreshold_exact(acc, baseline) ==
    /\ acc # NaN
    /\ baseline # NaN
    /\ acc >= baseline

\* sensitivity_curve[bits] >= baseline_accuracy * accuracy_threshold, with an
\* accuracy of k correct images out of n_images; any comparison with NaN is False
MeetsThreshold(acc, baseline) ==
    /\ acc # NaN
    /\ baseline # NaN
    /\ 100 * acc >= ThresholdPct * baseline

\* for bits in range(lo, hi + 1): if ...: optimal_bits = bits; break
RECURSIVE FirstQualifying(_, _, _, _)
FirstQualifying(curve, b, hi, fallback) ==
    IF b > hi THEN fallback
    ELSE IF MeetsThreshold(curve[b], curve[hi]) THEN b
    ELSE FirstQualifying(curve, b + 1, hi, fallback)

SelectOptimalBits(curve, br) == FirstQualifying(curve, br[1], br[2], br[2])

EmptyCurve == [b \in {} |-> 0]
EmptyMap == [n \in {} |-> [optimal_bits |-> 0, sensitivity_curve |-> EmptyCurve]]

NoFrame == [layer_name |-> "", bit_range |-> <<0, 0>>, bits |-> 0,
            original_weights |-> <<>>, sensitivity_curve |-> EmptyCurve]

Returned(op, name, br, ob, curve, map) ==
    [op |-> op, kind |-> "ok", error |-> "", layer_name |-> name, bit_range |-> br,
     optimal_bits |-> ob, sensitivity_curve |-> curve, map |-> map]

Raised(op, name, br, err) ==
    [op |-> op, kind |-> "raise", error |-> err, layer_name |-> name, bit_range |-> br,
     optimal_bits |-> 0, sensitivity_curve |-> EmptyCurve, map |-> EmptyMap]

NoOutcome ==
    [op |-> "none", kind |-> "none", error |-> "", layer_name |-> "", bit_range |-> <<0, 0>>,
     optimal_bits |-> 0, sensitivity_curve |-> EmptyCurve, map |-> EmptyMap]

\* the name of the call the caller made
TopOp == IF in_all THEN "analyze_all_layers" ELSE "analyze_layer"

-----------------------------------------------------------------------------
(* _evaluate_accuracy: the accuracies predict can give for the installed   *)
(* weights w, each with the oracle after the evaluation                    *)

EvaluateAccuracy(w) ==
    IF n_images = 0
    THEN {<<NaN, oracle>>}                       \* np.mean of an empty array
    ELSE IF w \in DOMAIN oracle
    THEN {<<oracle[w], oracle>>}
    ELSE {<<a, oracle @@ (w :> a)>> : a \in AccVals}

-----------------------------------------------------------------------------
(* WeightClusteringQuantizer.  sklearn's KMeans is modelled as Lloyd's      *)
(* algorithm on the flattened tensor: n_init runs, each started from        *)
(* num_clusters samples drawn with the run's random generator, the run of   *)
(* least inertia winning.  A centroid is kept exactly, as a multiple of     *)
(* 1 / CentUnit(n) for a tensor of n elements.                              *)

\* a defect: no seed is passed, KMeans draws from numpy's global generator
random_state_none == 0 - 1

DefaultNumClusters == 16
random_state == 42
n_init == 10
max_iter == 300
RngMod == 16
None == -1

NumClustersInputs == {0, 1, 2, 3}

QTensorInputs ==
    { [shape |-> <<2, 2>>, v |-> <<-5, 1, 1, 9>>],
      [shape |-> <<3>>, v |-> <<0, 4, 10>>],
      [shape |-> <<3>>, v |-> <<7, 7, 7>>],
      [shape |-> <<0>>, v |-> <<>>] }

QLayerInputs == {"conv1_pw", "conv2_pw"}

NoStore == [n \in {} |-> <<>>]

NoReport == [original_size |-> 0, index_bits |-> 0, compressed_size |-> 0]

NoQOutcome == [kind |-> "none", error |-> "", layer_name |-> "",
               indices |-> <<>>, codebook |-> <<>>, n_iter |-> 0, report |-> NoReport]

RECURSIVE Gcd(_, _)
Gcd(a, b) == IF b = 0 THEN a ELSE Gcd(b, a % b)

RECURSIVE CentUnit(_)
CentUnit(n) == IF n <= 1 THEN 1 ELSE LET u == CentUnit(n - 1) IN (u * n) \div Gcd(u, n)

Abs(x) == IF x < 0 THEN -x ELSE x

\* the generator KMeans draws from: check_random_state(random_state)
NextRng(s) == (5 * s + 3) % RngMod
SeedRng(seed) == seed % RngMod
KMeansRng == IF random_state = None THEN np_random ELSE SeedRng(random_state)

\* k distinct sample positions drawn with the generator
RECURSIVE PickInit(_, _, _, _)
PickInit(n, k, s, chosen) ==
    IF Len(chosen) = k THEN [idx |-> chosen, rng |-> s]
    ELSE LET i == (s % n) + 1
         IN  IF \E j \in 1..Len(chosen) : chosen[j] = i
             THEN PickInit(n, k, NextRng(s), chosen)
             ELSE PickInit(n, k, NextRng(s), Append(chosen, i))

\* label of x: the nearest centroid, the first of them on a tie (argmin)
Nearest(x, centers) ==
    CHOOSE j \in 1..Len(centers) :
        /\ \A m \in 1..Len(centers) : Abs(x - centers[j]) <= Abs(x - centers[m])
        /\ \A m \in 1..(j - 1) : Abs(x - centers[m]) > Abs(x - centers[j])

RECURSIVE SumOver(_, _)
SumOver(f, S) == IF S = {} THEN 0
                 ELSE LET i == CHOOSE i \in S : TRUE IN f[i] + SumOver(f, S \ {i})

\* a defect: the centroids are never moved to the mean of their members
UpdateCenters_kept(xs, labels, centers) == centers

\* xs: the samples in centroid units.  A centroid is the mean of its members;
\* a cluster without members keeps its centroid
UpdateCenters(xs, labels, centers) ==
    [j \in 1..Len(centers) |->
        LET members == {i \in 1..Len(xs) : labels[i] = j}
        IN  IF members = {} THEN centers[j]
            ELSE SumOver(xs, members) \div Cardinality(members)]

\* Inertia: the sum of the squared distances of the samples to their centroids
Inertia(xs, labels, centers) ==
    SumOver([i \in 1..Len(xs) |->
                (xs[i] - centers[labels[i]]) * (xs[i] - centers[labels[i]])],
            1..Len(xs))

\* repeat { assign; update } until the centroids stop moving or max_iter is reached
RECURSIVE Lloyd(_, _, _)
Lloyd(xs, centers, iter) ==
    LET labels == [i \in 1..Len(xs) |-> Nearest(xs[i], centers)]
    IN  CHOOSE r \in
            { IF moved = centers \/ iter >= max_iter
              THEN [labels |-> labels, centers |-> centers,
                    inertia |-> Inertia(xs, labels, centers), n_iter |-> iter]
              ELSE Lloyd(xs, moved, iter + 1) :
                moved \in {UpdateCenters(xs, labels, centers)} } : TRUE

\* the generator's state at the start of run r
RECURSIVE RunRng(_, _, _, _)
RunRng(n, k, s, r) ==
    IF r = 1 THEN s ELSE PickInit(n, k, RunRng(n, k, s, r - 1), <<>>).rng

\* n_init runs; the run of least inertia wins, the first of them on a tie
BestRun(xs, k, s) ==
    LET start == [r \in 1..(n_init + 1) |-> RunRng(Len(xs), k, s, r)]
        runs == [r \in 1..n_init |->
                    LET init == PickInit(Len(xs), k, start[r], <<>>)
                    IN  Lloyd(xs, [j \in 1..k |-> xs[init.idx[j]]], 1)]
        best == CHOOSE r \in 1..n_init :
                    /\ \A m \in 1..n_init : runs[r].inertia <= runs[m].inertia
                    /\ \A m \in 1..(r - 1) : runs[m].inertia > runs[r].inertia
    IN  [fit |-> runs[best], rng |-> start[n_init + 1]]

\* a defect: fewer distinct values than clusters is taken for an error
KMeansError_distinct(v, k) ==
    IF k < 1 THEN "InvalidParameterError: n_clusters"
    ELSE IF Len(v) = 0 THEN "ValueError: 0 samples"
    ELSE IF Cardinality({v[i] : i \in 1..Len(v)}) < k THEN "ValueError: n_samples < n_clusters"
    ELSE ""

\* KMeans(n_clusters=k, ...).fit_predict(weights_flat): the error it raises, or "".
\* The parameters are validated first, then the samples, before any clustering
KMeansError(v, k) ==
    IF k < 1 THEN "InvalidParameterError: n_clusters"
    ELSE IF Len(v) = 0 THEN "ValueError: 0 samples"
    ELSE IF Len(v) < k THEN "ValueError: n_samples < n_clusters"
    ELSE ""

KMeansFit(v, k, s) ==
    LET u == CentUnit(Len(v))
        xs == [i \in 1..Len(v) |-> v[i] * u]
    IN  BestRun(xs, k, s)

\* fit_predict on the tensors tried, computed once for each tensor, number of
\* clusters and generator state
FitPredict ==
    [a \in { <<w.v, k, s>> : w \in QTensorInputs, k \in NumClustersInputs,
                              s \in 0..(RngMod - 1) } |->
        IF KMeansError(a[1], a[2]) # "" THEN <<>> ELSE KMeansFit(a[1], a[2], a[3])]

\* .astype(np.uint8 if self.num_clusters <= 256 else np.uint16)
IndexCast(label, k) == IF k <= 256 THEN label % 256 ELSE label % 65536

\* a defect: the labels are not reshaped to the shape of the input
IndexTensor_flat(labels, shape, k) ==
    [shape |-> <<Len(labels)>>,
     v |-> [i \in 1..Len(labels) |-> IndexCast(labels[i] - 1, k)]]

\* line 213: labels.reshape(original_shape).astype(...); labels counts the
\* clusters from 1 here and from 0 in the program; v is in row-major order
IndexTensor(labels, shape, k) ==
    [shape |-> shape,
     v |-> [i \in 1..Len(labels) |-> IndexCast(labels[i] - 1, k)]]

\* a defect: int(np.log2(k)) is written for int(np.ceil(np.log2(k)))
RECURSIVE CeilLog2_floor(_)
CeilLog2_floor(k) == IF k <= 1 THEN 0 ELSE 1 + CeilLog2_floor(k \div 2)

\* line 222: int(np.ceil(np.log2(k))), k >= 1
RECURSIVE CeilLog2(_)
CeilLog2(k) == IF k <= 1 THEN 0 ELSE 1 + CeilLog2((k + 1) \div 2)

OriginalBits == 32

\* lines 221-225: compression_ratio = original_size / compressed_size
CompressionReport(size, k) ==
    [original_size |-> size * OriginalBits,
     index_bits |-> CeilLog2(k),
     compressed_size |-> size * CeilLog2(k) + k * OriginalBits]

\* weights.size
RECURSIVE TensorSize(_)
TensorSize(shape) == IF shape = <<>> THEN 1 ELSE Head(shape) * TensorSize(Tail(shape))

\* a defect: the entry of the layer is dropped when the call is entered
StoreOnRaise_cleared(store, layer_name) ==
    [n \in DOMAIN store \ {layer_name} |-> store[n]]

\* fit_predict raises at line 209, before the stores of lines 217-218
StoreOnRaise(store, layer_name) == store

\* a defect: an entry that exists is kept (setdefault)
StoreEntry_keepfirst(store, layer_name, value) ==
    [n \in DOMAIN store \cup {layer_name} |->
        IF n \in DOMAIN store THEN store[n] ELSE value]

\* lines 217-218: self.codebooks[layer_name] = ..., self.indices[layer_name] = ...
StoreEntry(store, layer_name, value) ==
    [n \in DOMAIN store \cup {layer_name} |->
        IF n = layer_name THEN value ELSE store[n]]

\* a dict iterates its keys in the order of their first insertion
KeyOrderAfter(order, layer_name) ==
    IF \E i \in 1..Len(order) : order[i] = layer_name
    THEN order ELSE Append(order, layer_name)

NoSOutcome == [kind |-> "none", error |-> "", output_dir |-> "", path |-> <<>>]

\* the caller calls quantize_layer_weights(w, layer_name)
quantize_layer_weights(w, layer_name) ==
    /\ component = "clustering"
    /\ n_calls < MaxQCalls
    /\ n_calls' = n_calls + 1
    /\ s_outcome' = NoSOutcome
    /\ IF KMeansError(w.v, num_clusters) # ""
       THEN /\ q_outcome' = [kind |-> "raise", error |-> KMeansError(w.v, num_clusters),
                             layer_name |-> layer_name, indices |-> <<>>,
                             codebook |-> <<>>, n_iter |-> 0, report |-> NoReport]
            /\ codebooks' = StoreOnRaise(codebooks, layer_name)
            /\ indices' = StoreOnRaise(indices, layer_name)
            /\ hist' = [hist EXCEPT
                   !.qarg = w,
                   !.qentry = [codebooks |-> codebooks, indices |-> indices]]
            /\ UNCHANGED <<np_random, key_order>>
       ELSE \E res \in {FitPredict[<<w.v, num_clusters, KMeansRng>>]} :
            LET idx == IndexTensor(res.fit.labels, w.shape, num_clusters)
                codebook == [unit |-> CentUnit(Len(w.v)), c |-> res.fit.centers]
                key == w
                val == [indices |-> idx, codebook |-> codebook]
            IN  /\ codebooks' = StoreEntry(codebooks, layer_name, codebook)
                /\ indices' = StoreEntry(indices, layer_name, idx)
                /\ key_order' = KeyOrderAfter(key_order, layer_name)
                /\ np_random' = IF random_state = None THEN res.rng ELSE np_random
                /\ q_outcome' = [kind |-> "ok", error |-> "", layer_name |-> layer_name,
                                 indices |-> idx, codebook |-> codebook,
                                 n_iter |-> res.fit.n_iter,
                                 report |-> CompressionReport(TensorSize(w.shape),
                                                             num_clusters)]
                /\ hist' = [hist EXCEPT
                       !.qcall = w,
                       !.qlog = IF key \in DOMAIN @ THEN @ ELSE @ @@ (key :> val),
                       !.qrepeated = key \in DOMAIN hist.qlog,
                       !.qarg = w,
                       !.qentry = [codebooks |-> codebooks, indices |-> indices],
                       !.qlast = [n \in DOMAIN @ \cup {layer_name} |->
                                     IF n = layer_name THEN val ELSE @[n]]]
    /\ UNCHANGED <<component, analyzerVars, num_clusters, probe, d_outcome, fs>>

\* the compression report of quantize_layer_weights (lines 220-229) for a
\* tensor of size elements, for sizes beyond the tensors clustered above
ReportSizeInputs == {1, 4, 100, 512}
ReportClustersInputs == {1, 2, 3, 16, 300}

report_compression(size) ==
    /\ component = "report"
    /\ probe' = [op |-> "compression_report", size |-> size,
                 num_clusters |-> num_clusters,
                 report |-> CompressionReport(size, num_clusters)]
    /\ UNCHANGED <<component, analyzerVars, clusterVars, n_calls, hist>>

-----------------------------------------------------------------------------
(* dequantize_weights *)

NoDOutcome == [kind |-> "none", error |-> "", indices |-> <<>>, codebook |-> <<>>,
               result |-> <<>>]

\* index tensors and codebooks tried besides the stored ones
DequantizeInputs ==
    { [indices |-> [shape |-> <<2, 2>>, v |-> <<0, 2, 2, 1>>],
       codebook |-> [unit |-> 1, c |-> <<-3, 5, 8>>]],
      [indices |-> [shape |-> <<3>>, v |-> <<1, 1, 0>>],
       codebook |-> [unit |-> 2, c |-> <<7, 9>>]],
      [indices |-> [shape |-> <<2>>, v |-> <<0, 3>>],
       codebook |-> [unit |-> 1, c |-> <<4, 6, 6>>]] }

StoredPairs ==
    { [indices |-> indices[n], codebook |-> codebooks[n]] :
        n \in DOMAIN codebooks \cap DOMAIN indices }

\* a defect: codebook[indices - 1]; Python's index -1 is the last entry
Gather_offbyone(idx, codebook) ==
    [shape |-> idx.shape, unit |-> codebook.unit,
     v |-> [p \in 1..Len(idx.v) |->
               codebook.c[((idx.v[p] + Len(codebook.c) - 1) % Len(codebook.c)) + 1]]]

\* line 235: codebook[indices]; the program's index i is entry i + 1 here
Gather(idx, codebook) ==
    [shape |-> idx.shape, unit |-> codebook.unit,
     v |-> [p \in 1..Len(idx.v) |-> codebook.c[idx.v[p] + 1]]]

\* the caller calls dequantize_weights(indices, codebook); numpy raises
\* IndexError for an index that is not below the length of the codebook
dequantize_weights(idx, codebook) ==
    /\ component = "clustering"
    /\ n_calls < MaxQCalls
    /\ n_calls' = n_calls + 1
    /\ d_outcome' =
          IF \E p \in 1..Len(idx.v) : idx.v[p] >= Len(codebook.c)
          THEN [kind |-> "raise", error |-> "IndexError", indices |-> idx,
                codebook |-> codebook, result |-> <<>>]
          ELSE [kind |-> "ok", error |-> "", indices |-> idx,
                codebook |-> codebook, result |-> Gather(idx, codebook)]
    /\ UNCHANGED <<component, analyzerVars, num_clusters, codebooks, indices,
                   key_order, np_random, q_outcome, fs, s_outcome, probe, hist>>

-----------------------------------------------------------------------------
(* save_to_fpga_format *)

ExportDirInputs == {"quantized_weights", "fpga_out"}

NoFiles == [dirs |-> {}, files |-> [p \in {} |-> <<>>]]

FracBits == 10

\* int(x) of the quotient a / b, b > 0: truncation towards zero
Trunc(a, b) == IF a >= 0 THEN a \div b ELSE -((-a) \div b)

\* line 251: fixed_point = int(value * (2 ** 10))
FixedPoint(c, unit) == Trunc(c * Pow2(FracBits), unit)

\* the digits of x >= 0 in the given base, most significant first,
\* padded with zeros to the width
RECURSIVE Digits(_, _, _)
Digits(x, base, width) ==
    IF x < base /\ width <= 1 THEN <<x>>
    ELSE Append(Digits(x \div base, base, width - 1), x % base)

\* the characters of a sequence of digits
DigitChars == <<"0", "1", "2", "3", "4", "5", "6", "7", "8", "9">>
Text(digits) == [p \in 1..Len(digits) |-> DigitChars[digits[p] + 1]]

\* f"{i:02d}"
Format02d(i) == Text(Digits(i, 10, 2))

\* f"{fixed_point:020b}": 20 characters at least, the sign of a negative
\* number being one of them
Format020b(x) ==
    IF x < 0 THEN <<"-">> \o Text(Digits(-x, 2, 19)) ELSE Text(Digits(x, 2, 20))

\* f"{value:.6f}": the multiple of 10^-6 nearest to value = c / unit,
\* as a count of millionths
Format6f(c, unit) ==
    IF c >= 0 THEN (2 * c * 1000000 + unit) \div (2 * unit)
    ELSE -((2 * (-c) * 1000000 + unit) \div (2 * unit))

\* a defect: enumerate(codebook, 1)
CodebookLine_onebased(i, codebook) ==
    [index |-> Format02d(i),
     fixed_point |-> Format020b(FixedPoint(codebook.c[i], codebook.unit)),
     value |-> Format6f(codebook.c[i], codebook.unit)]

\* line 252: f"{i:02d}: {fixed_point:020b}  // {value:.6f}\n" for entry i
\* of the program, which is entry i + 1 here
CodebookLine(i, codebook) ==
    [index |-> Format02d(i - 1),
     fixed_point |-> Format020b(FixedPoint(codebook.c[i], codebook.unit)),
     value |-> Format6f(codebook.c[i], codebook.unit)]

\* line 244, ndarray.tofile: the elements in row-major order, each of the
\* width of the dtype (uint8: 1 byte, uint16: 2 bytes)
IndexBlob(idx, k) == [width |-> IF k <= 256 THEN 1 ELSE 2, elems |-> idx.v]

CodebookFile(codebook) ==
    [lines |-> [i \in 1..Len(codebook.c) |-> CodebookLine(i, codebook)]]

IndicesPath(output_dir, layer_name) == <<output_dir, layer_name, "_indices.bin">>
CodebookPath(output_dir, layer_name) == <<output_dir, layer_name, "_codebook.txt">>

\* the files the loop of lines 241-252 writes for the layers given
WrittenFiles(output_dir, layers) ==
    [p \in {IndicesPath(output_dir, n) : n \in layers}
            \cup {CodebookPath(output_dir, n) : n \in layers} |->
        IF p[3] = "_indices.bin"
        THEN IndexBlob(indices[p[2]], num_clusters)
        ELSE CodebookFile(codebooks[p[2]])]

\* f overwrites g where both are defined
Overwrite(g, f) == [p \in DOMAIN g \cup DOMAIN f |-> IF p \in DOMAIN f THEN f[p] ELSE g[p]]

\* the caller calls save_to_fpga_format(output_dir) and every write succeeds
save_to_fpga_format(output_dir) ==
    /\ component = "clustering"
    /\ n_calls < MaxQCalls
    /\ n_calls' = n_calls + 1
    /\ fs' = [dirs |-> fs.dirs \cup {output_dir},
              files |-> Overwrite(fs.files, WrittenFiles(output_dir, DOMAIN codebooks))]
    /\ s_outcome' = [kind |-> "ok", error |-> "", output_dir |-> output_dir, path |-> <<>>]
    /\ UNCHANGED <<component, analyzerVars, num_clusters, codebooks, indices,
                   key_order, np_random, q_outcome, d_outcome, probe, hist>>

\* open(path, 'w') has created or emptied the file and the writes before the
\* failing one have reached it: nothing removes the file (lines 244, 248-252)
FileAfterFailure(files, path, partial) == Overwrite(files, path :> partial)

\* what is in the file of the artifact when the write after its first m
\* elements (index blob) or lines (codebook file) fails
PartialFile(layer_name, artifact, m) ==
    IF artifact = "_indices.bin"
    THEN [width |-> IndexBlob(indices[layer_name], num_clusters).width,
          elems |-> SubSeq(indices[layer_name].v, 1, m)]
    ELSE [lines |-> SubSeq(CodebookFile(codebooks[layer_name]).lines, 1, m)]

ArtifactLength(layer_name, artifact) ==
    IF artifact = "_indices.bin" THEN Len(indices[layer_name].v)
    ELSE Len(codebooks[layer_name].c)

\* where the write of an artifact of n elements or lines is made to fail:
\* before the first of them, or before the last
FailurePoints(n) == {0, n - 1} \cap (0..(n - 1))

\* the caller calls save_to_fpga_format(output_dir) and a write raises OSError:
\* os.makedirs, or the write of an artifact of the layer at position pos of
\* the loop after m of its elements or lines; no handler catches it
save_to_fpga_format_fails(output_dir) ==
    /\ component = "clustering"
    /\ n_calls < MaxQCalls
    /\ n_calls' = n_calls + 1
    /\ \/ /\ output_dir \notin fs.dirs
          /\ s_outcome' = [kind |-> "raise", error |-> "OSError",
                           output_dir |-> output_dir, path |-> <<>>]
          /\ UNCHANGED fs
       \/ \E pos \in 1..Len(key_order), artifact \in {"_indices.bin", "_codebook.txt"} :
          \E m \in FailurePoints(ArtifactLength(key_order[pos], artifact)) :
             LET layer_name == key_order[pos]
                 path == <<output_dir, layer_name, artifact>>
                 before == {key_order[i] : i \in 1..(pos - 1)}
                 complete ==
                     Overwrite(WrittenFiles(output_dir, before),
                               IF artifact = "_codebook.txt"
                               THEN IndicesPath(output_dir, layer_name) :>
                                        IndexBlob(indices[layer_name], num_clusters)
                               ELSE [p \in {} |-> <<>>])
             IN  /\ fs' = [dirs |-> fs.dirs \cup {output_dir},
                           files |-> FileAfterFailure(
                                         Overwrite(fs.files, complete), path,
                                         PartialFile(layer_name, artifact, m))]
                 /\ s_outcome' = [kind |-> "raise", error |-> "OSError",
                                  output_dir |-> output_dir, path |-> path]
    /\ UNCHANGED <<component, analyzerVars, num_clusters, codebooks, indices,
                   key_order, np_random, q_outcome, d_outcome, probe, hist>>

-----------------------------------------------------------------------------
(* logarithmic_quantize_activation, logarithmic_dequantize_activation.      *)
(* Activations are whole numbers, logarithms are kept in thousandths and    *)
(* dequantized activations in ten-thousandths.                              *)

LogUnit == 1000
ActUnit == 10000

ActivationInputs ==
    { <<0, 7, 100>>, <<-3, 1, 255>>, <<3, 15, 15>>, <<7, 15>>, <<0, 0>> }

OutBitsInputs == {2, 8, 9}

OriginalMaxInputs == {0, 7, 15, 100, 255}

\* quantized tensors passed to logarithmic_dequantize_activation besides the
\* one logarithmic_quantize_activation returned, each with its out_bits
DequantizeActivationInputs ==
    { [quantized |-> <<254, 255>>, out_bits |-> 8],
      [quantized |-> <<0, 1, 3>>, out_bits |-> 2],
      [quantized |-> <<0, 255, 511>>, out_bits |-> 9] }

\* np.maximum(activation, 0)
ReLU(x) == IF x < 0 THEN 0 ELSE x

\* np.log2(x + 1) to the nearest thousandth
Log2p1(x) ==
    CASE x = 0 -> 0
      [] x = 1 -> 1000
      [] x = 3 -> 2000
      [] x = 7 -> 3000
      [] x = 15 -> 4000
      [] x = 100 -> 6658
      [] x = 255 -> 8000

\* a defect: 2 ** out_bits is written for 2 ** out_bits - 1
ActLevels_pow(out_bits) == Pow2(out_bits)

\* lines 281, 290: 2 ** out_bits - 1
ActLevels(out_bits) == Pow2(out_bits) - 1

\* line 282: np.round(log_activation * scale) with scale = levels / (max_log
\* + 1e-8), for a = log_activation; max_log is 0 or at least 1, the product
\* lies just below a * levels / max_log, so an exact tie rounds down
LogCode(a, levels, max_log) ==
    IF max_log = 0 THEN 0 ELSE (2 * a * levels + max_log - 1) \div (2 * max_log)

\* .astype(np.uint8) of a rounded float x >= 0: a value above 255 is outside
\* the type and the conversion is undefined; builds wrap it or saturate it
CastModes == {"wrap", "saturate"}
CastUint8(x, mode) ==
    IF x <= 255 THEN x ELSE IF mode = "wrap" THEN x % 256 ELSE 255

\* 2 ** (d / 10), 2 ** (d / 100), 2 ** (d / 1000) for d = 0..9, in ten-thousandths
Exp2Tenths == <<10000, 10718, 11487, 12311, 13195, 14142, 15157, 16245, 17411, 18661>>
Exp2Hundredths == <<10000, 10070, 10140, 10210, 10281, 10353, 10425, 10497, 10570, 10644>>
Exp2Thousandths == <<10000, 10007, 10014, 10021, 10028, 10035, 10042, 10049, 10056, 10063>>

\* 2 ** (l / 1000) in ten-thousandths
Exp2(l) ==
    LET f == l % LogUnit
        a == Exp2Tenths[(f \div 100) + 1]
        b == Exp2Hundredths[((f \div 10) % 10) + 1]
        c == Exp2Thousandths[(f % 10) + 1]
    IN  Pow2(l \div LogUnit) * ((((a * b) \div ActUnit) * c) \div ActUnit)

\* lines 289-294 for one code: quantized / scale to the nearest thousandth,
\* then 2 ** log_activation - 1
DecodeValue(code, original_max, out_bits) ==
    LET max_log == Log2p1(original_max)
        levels == ActLevels(out_bits)
        log_activation == (2 * code * max_log + levels) \div (2 * levels)
    IN  Exp2(log_activation) - ActUnit

NoActProbe == [op |-> "none",
              q |-> [activation |-> <<>>, out_bits |-> 0, quantized |-> <<>>],
              d |-> [quantized |-> <<>>, original_max |-> 0, out_bits |-> 0,
                     activation |-> <<>>]]

\* the caller calls logarithmic_quantize_activation(activation, out_bits)
logarithmic_quantize_activation(activation, out_bits) ==
    /\ component = "activation"
    /\ \E mode \in CastModes :
          LET relu == [p \in 1..Len(activation) |-> ReLU(activation[p])]
              max_log == Log2p1(SeqMax(relu))
              levels == ActLevels(out_bits)
              quantized == [p \in 1..Len(relu) |->
                              CastUint8(LogCode(Log2p1(relu[p]), levels, max_log), mode)]
          IN  probe' = [probe EXCEPT
                  !.op = "logarithmic_quantize_activation",
                  !.q = [activation |-> activation, out_bits |-> out_bits,
                         quantized |-> quantized]]
    /\ UNCHANGED <<component, analyzerVars, clusterVars, n_calls, hist>>

\* the tensors the caller passes: the fixed ones and the tensor that
\* logarithmic_quantize_activation returned last
DequantizeActivationArgs ==
    IF component = "activation" /\ probe.q.quantized # <<>>
    THEN DequantizeActivationInputs
            \cup {[quantized |-> probe.q.quantized, out_bits |-> probe.q.out_bits]}
    ELSE DequantizeActivationInputs

\* the caller calls logarithmic_dequantize_activation(quantized, original_max, out_bits)
logarithmic_dequantize_activation(quantized, original_max, out_bits) ==
    /\ component = "activation"
    /\ probe' = [probe EXCEPT
            !.op = "logarithmic_dequantize_activation",
            !.d = [quantized |-> quantized, original_max |-> original_max,
                   out_bits |-> out_bits,
                   activation |-> [p \in 1..Len(quantized) |->
                                      DecodeValue(quantized[p], original_max, out_bits)]]]
    /\ UNCHANGED <<component, analyzerVars, clusterVars, n_calls, hist>>

-----------------------------------------------------------------------------
(* generate_mixed_precision_config *)

ConfigNameInputs == {"conv1_dw", "conv1_pw", "depthwise_conv2d", "conv1_dw_proj"}
ConfigBitsInputs == {4, 6, 8, 16}
ConfigPathInputs == {"mixed_precision_config.py"}

\* the sensitivity maps passed: the items of a dict in its order, each a layer
\* name with the optimal_bits of its record
ConfigMapInputs ==
    LET Item == [layer_name : ConfigNameInputs, optimal_bits : ConfigBitsInputs]
    IN  {<<>>} \cup {<<a>> : a \in Item}
               \cup {m \in Item \X Item : m[1].layer_name # m[2].layer_name}

MinActivationBits == 8

\* a defect: min is written for max
ConfigEntry_min(layer_name, optimal_bits) ==
    IF Contains(<<"d","w">>, Chars(layer_name))
    THEN [weight |-> optimal_bits,
          activation |-> IF optimal_bits <= MinActivationBits
                         THEN optimal_bits ELSE MinActivationBits]
    ELSE [weight |-> optimal_bits, activation |-> optimal_bits + 1]

\* lines 320-329: the entry of one layer
ConfigEntry(layer_name, optimal_bits) ==
    IF Contains(<<"d","w">>, Chars(layer_name))
    THEN [weight |-> optimal_bits,
          activation |-> IF optimal_bits >= MinActivationBits
                         THEN optimal_bits ELSE MinActivationBits]
    ELSE [weight |-> optimal_bits, activation |-> optimal_bits + 1]

\* lines 314-329: config, a dict keyed by the layer names of the map
ConfigOf(map) ==
    [n \in {map[i].layer_name : i \in 1..Len(map)} |->
        LET i == CHOOSE j \in 1..Len(map) : map[j].layer_name = n
        IN  ConfigEntry(n, map[i].optimal_bits)]

\* lines 332-338: the file, one line per entry of config in its order
ConfigFile(map) ==
    [lines |-> [i \in 1..Len(map) |->
                  [layer_name |-> map[i].layer_name,
                   bits |-> ConfigOf(map)[map[i].layer_name]]]]

\* the caller calls generate_mixed_precision_config(sensitivity_map, output_path)
generate_mixed_precision_config(map, output_path) ==
    /\ component = "config"
    /\ fs' = [dirs |-> fs.dirs,
              files |-> Overwrite(fs.files, <<output_path>> :> ConfigFile(map))]
    /\ probe' = [op |-> "generate_mixed_precision_config",
                 sensitivity_map |-> map,
                 output_path |-> output_path,
                 config |-> ConfigOf(map)]
    /\ UNCHANGED <<component, analyzerVars, num_clusters, codebooks, indices,
                   key_order, np_random, q_outcome, d_outcome, s_outcome, n_calls, hist>>

-----------------------------------------------------------------------------
NoCall == [op |-> "none", layer_name |-> "", bit_range |-> <<0, 0>>]

Init ==
    /\ \/ /\ component = "analyzer"
          /\ n_images \in {0, NumImages}
          /\ num_clusters = DefaultNumClusters
       \/ /\ component = "clustering"
          /\ n_images = NumImages
          /\ num_clusters \in NumClustersInputs
       \/ /\ component = "uniform"
          /\ n_images = NumImages
          /\ num_clusters = DefaultNumClusters
       \/ /\ component = "report"
          /\ n_images = NumImages
          /\ num_clusters \in ReportClustersInputs
       \/ /\ component = "activation"
          /\ n_images = NumImages
          /\ num_clusters = DefaultNumClusters
       \/ /\ component = "config"
          /\ n_images = NumImages
          /\ num_clusters = DefaultNumClusters
    /\ probe = IF component = "activation" THEN NoActProbe ELSE NoProbe
    /\ codebooks = NoStore
    /\ indices = NoStore
    /\ key_order = <<>>
    /\ np_random = 0
    /\ q_outcome = NoQOutcome
    /\ d_outcome = NoDOutcome
    /\ fs = NoFiles
    /\ s_outcome = NoSOutcome
    /\ weights = InitWeights
    /\ sensitivity_map = EmptyMap
    /\ map_order = <<>>
    /\ pc = "idle"
    /\ frame = NoFrame
    /\ all_rest = <<>>
    /\ in_all = FALSE
    /\ outcome = NoOutcome
    /\ oracle = [w \in {} |-> 0]
    /\ n_calls = 0
    /\ n_raises = 0
    /\ hist = [call |-> NoCall,                 \* the caller's last call
               call_weights |-> InitWeights,    \* the model's weights when it was made
               entry_weights |-> InitWeights,   \* ... when the last analyze_layer was entered
               entry_map |-> EmptyMap,          \* the map when the last analyze_layer was entered
               started |-> <<>>,                \* sweeps begun by the caller's last call
               last |-> [n \in {} |-> 0],       \* layer -> its latest completed sweep
               log |-> [k \in {} |-> 0],        \* <<layer, range>> -> first result since a raise
               repeated |-> FALSE,              \* the last sweep repeated a logged one
               qcall |-> <<>>,                  \* tensor of the last quantize_layer_weights
               qlog |-> [k \in {} |-> 0],       \* tensor -> first result
               qrepeated |-> FALSE,
               qarg |-> <<>>,                   \* tensor of the last call, failed or not
               qentry |-> [codebooks |-> NoStore, indices |-> NoStore],
                                                \* the stores when it was entered
               qlast |-> [n \in {} |-> 0]]      \* layer -> pair of its latest successful call

NoLayer == "<none>"

\* a defect: an unknown name falls back to the first layer
get_layer_default(name) == IF HasLayer(name) THEN name ELSE ModelLayers[1]

\* line 59, model.get_layer(layer_name): the layer of that name; Keras raises
\* ValueError when the model has none
get_layer(name) == IF HasLayer(name) THEN name ELSE NoLayer

\* a defect: the weights are not restored
RestoredWeights_skipped(w, name, original_weights) == w

\* a defect: the snapshot is installed in every layer
RestoredWeights_everywhere(w, name, original_weights) ==
    [n \in DOMAIN w |-> original_weights]

\* line 78: layer.set_weights(original_weights)
RestoredWeights(w, name, original_weights) == [w EXCEPT ![name] = original_weights]

\* a defect: the loop writes the curve into the map as it grows
MapDuringSweep_stores(map, name, curve) ==
    [n \in DOMAIN map \cup {name} |->
        IF n = name THEN [optimal_bits |-> 0, sensitivity_curve |-> curve] ELSE map[n]]

\* lines 62-73: sensitivity_curve is a dict local to the call; the loop leaves
\* self.sensitivity_map as it is
MapDuringSweep(map, name, curve) == map

\* a defect: a repeated sweep merges its curve into the stored one
StoreRecord_merge(map, name, rec) ==
    [n \in DOMAIN map \cup {name} |->
        IF n # name THEN map[n]
        ELSE IF name \in DOMAIN map
             THEN [optimal_bits |-> rec.optimal_bits,
                   sensitivity_curve |-> rec.sensitivity_curve @@ map[name].sensitivity_curve]
             ELSE rec]

\* lines 90-93: self.sensitivity_map[layer_name] = {...}
StoreRecord(map, name, rec) ==
    [n \in DOMAIN map \cup {name} |-> IF n = name THEN rec ELSE map[n]]

\* lines 57-62: look the layer up, snapshot its weights, start the loop
BeginSweep(name, br) ==
    /\ pc' = "sweep"
    /\ frame' = [layer_name |-> name, bit_range |-> br, bits |-> br[1],
                 original_weights |-> weights[name],
                 sensitivity_curve |-> EmptyCurve]

\* the caller calls analyze_layer(layer_name, bit_range)
analyze_layer(name, br) ==
    /\ component = "analyzer"
    /\ pc = "idle"
    /\ n_calls < MaxCalls
    /\ n_calls' = n_calls + 1
    /\ in_all' = FALSE
    /\ all_rest' = <<>>
    /\ IF get_layer(name) # NoLayer
       THEN /\ BeginSweep(get_layer(name), br)
            /\ outcome' = NoOutcome
            /\ hist' = [hist EXCEPT
                   !.call = [op |-> "analyze_layer", layer_name |-> name, bit_range |-> br],
                   !.call_weights = weights,
                   !.entry_weights = weights,
                   !.entry_map = sensitivity_map,
                   !.started = <<<<get_layer(name), br>>>>,
                   !.repeated = FALSE]
       ELSE /\ outcome' = Raised("analyze_layer", name, br, "LayerNotFound")
            /\ hist' = [hist EXCEPT
                   !.call = [op |-> "analyze_layer", layer_name |-> name, bit_range |-> br],
                   !.call_weights = weights,
                   !.entry_weights = weights,
                   !.entry_map = sensitivity_map,
                   !.started = <<>>,
                   !.repeated = FALSE]
            /\ UNCHANGED <<pc, frame>>
    /\ UNCHANGED <<component, clusterVars, probe, weights, n_images, sensitivity_map, map_order,
                   oracle, n_raises>>

\* a defect: a candidate is quantized from the weights the layer holds
SweepSource_installed(fr, w) == w[fr.layer_name]

\* line 66: every candidate is quantized from original_weights, the snapshot
\* of line 60
SweepSource(fr, w) == fr.original_weights

\* one pass of the loop of lines 64-75 in which predict returns
sweep_step ==
    /\ pc = "sweep"
    /\ frame.bits <= frame.bit_range[2]
    /\ LET quantized_weights == quantize_weights(SweepSource(frame, weights), frame.bits)
           installed == [weights EXCEPT ![frame.layer_name] = quantized_weights]
       IN  /\ weights' = installed
           /\ \E r \in EvaluateAccuracy(installed) :
                LET curve == (frame.bits :> r[1]) @@ frame.sensitivity_curve
                IN  /\ oracle' = r[2]
                    /\ frame' = [frame EXCEPT !.sensitivity_curve = curve,
                                              !.bits = @ + 1]
                    /\ sensitivity_map' =
                           MapDuringSweep(sensitivity_map, frame.layer_name, curve)
    /\ UNCHANGED <<component, clusterVars, probe, n_images, map_order, pc, all_rest,
                   in_all, outcome, n_calls, n_raises, hist>>

\* one pass of the loop in which predict raises: the exception leaves
\* analyze_layer (and analyze_all_layers) at line 72, nothing catches it
sweep_step_raises ==
    /\ pc = "sweep"
    /\ frame.bits <= frame.bit_range[2]
    /\ n_raises < MaxRaises
    /\ n_raises' = n_raises + 1
    /\ weights' = [weights EXCEPT ![frame.layer_name] =
                      quantize_weights(SweepSource(frame, weights), frame.bits)]
    /\ pc' = "idle"
    /\ outcome' = Raised(TopOp, frame.layer_name, frame.bit_range, "EvaluationError")
    /\ in_all' = FALSE
    /\ all_rest' = <<>>
    /\ hist' = [hist EXCEPT !.log = [k \in {} |-> 0]]
    /\ UNCHANGED <<component, clusterVars, probe, n_images, sensitivity_map, map_order,
                   frame, oracle, n_calls>>

\* lines 77-96: restore, select, store, return
sweep_finish ==
    /\ pc = "sweep"
    /\ frame.bits > frame.bit_range[2]
    /\ weights' = RestoredWeights(weights, frame.layer_name, frame.original_weights)
    /\ IF frame.bit_range[1] > frame.bit_range[2]
       THEN \* line 82, sensitivity_curve[bit_range[1]] of an empty curve: KeyError
            /\ pc' = "idle"
            /\ outcome' = Raised(TopOp, frame.layer_name, frame.bit_range, "KeyError")
            /\ in_all' = FALSE
            /\ all_rest' = <<>>
            /\ UNCHANGED <<sensitivity_map, map_order, hist>>
       ELSE LET curve == frame.sensitivity_curve
                optimal_bits == SelectOptimalBits(curve, frame.bit_range)
                rec == [optimal_bits |-> optimal_bits, sensitivity_curve |-> curve]
                key == <<frame.layer_name, frame.bit_range>>
            IN  /\ sensitivity_map' = StoreRecord(sensitivity_map, frame.layer_name, rec)
                /\ map_order' = KeyOrderAfter(map_order, frame.layer_name)
                /\ outcome' = Returned("analyze_layer", frame.layer_name,
                                       frame.bit_range, optimal_bits, curve, EmptyMap)
                /\ pc' = IF in_all THEN "all" ELSE "idle"
                /\ hist' = [hist EXCEPT
                       !.last = (frame.layer_name :>
                                    [bit_range |-> frame.bit_range, rec |-> rec]) @@ @,
                       !.log = IF key \in DOMAIN @ THEN @ ELSE @ @@ (key :> rec),
                       !.repeated = key \in DOMAIN hist.log]
                /\ UNCHANGED <<in_all, all_rest>>
    /\ UNCHANGED <<component, clusterVars, probe, n_images, frame, oracle, n_calls, n_raises>>

\* the caller calls analyze_all_layers()
analyze_all_layers ==
    /\ component = "analyzer"
    /\ pc = "idle"
    /\ n_calls < MaxCalls
    /\ n_calls' = n_calls + 1
    /\ in_all' = TRUE
    /\ all_rest' = layer_names
    /\ pc' = "all"
    /\ outcome' = NoOutcome
    /\ hist' = [hist EXCEPT
           !.call = [op |-> "analyze_all_layers", layer_name |-> "", bit_range |-> <<0, 0>>],
           !.call_weights = weights,
           !.started = <<>>,
           !.repeated = FALSE]
    /\ UNCHANGED <<component, clusterVars, probe, weights, n_images, sensitivity_map, map_order,
                   frame, oracle, n_raises>>

\* lines 133-136: the next layer of the loop, or the return of the map
all_layers_step ==
    /\ pc = "all"
    /\ IF all_rest = <<>>
       THEN /\ pc' = "idle"
            /\ in_all' = FALSE
            /\ outcome' = Returned("analyze_all_layers", "", <<0, 0>>, 0, EmptyCurve,
                                   sensitivity_map)
            /\ UNCHANGED <<frame, all_rest, hist>>
       ELSE /\ BeginSweep(Head(all_rest), <<DefaultBitMin, DefaultBitMax>>)
            /\ all_rest' = Tail(all_rest)
            /\ hist' = [hist EXCEPT
                   !.entry_weights = weights,
                   !.entry_map = sensitivity_map,
                   !.started = Append(@, <<Head(all_rest), <<DefaultBitMin, DefaultBitMax>>>>)]
            /\ UNCHANGED <<in_all, outcome>>
    /\ UNCHANGED <<component, clusterVars, probe, weights, n_images, sensitivity_map, map_order,
                   oracle, n_calls, n_raises>>

ReportPathInputs == {"quantization_sensitivity_report.txt"}

\* line 156: original_bits = 19
original_bits == 19

\* lines 163-164: the number of weights assumed for every layer
PlaceholderCount == 1000

\* (1 - optimized / original) * 100 under the format .1f: the nearest
\* multiple of 0.1, as a count of tenths
Format1f(optimized, original) ==
    IF optimized <= original
    THEN (2 * 1000 * (original - optimized) + original) \div (2 * original)
    ELSE -((2 * 1000 * (optimized - original) + original) \div (2 * original))

\* lines 157-160: the row of a layer
ReportRow(layer_name, info) ==
    [layer_name |-> layer_name,
     original_bits |-> original_bits,
     optimal_bits |-> info.optimal_bits,
     savings |-> Format1f(info.optimal_bits, original_bits)]

\* lines 152, 163: total_bits_original after the rows given
RECURSIVE total_bits_original(_)
total_bits_original(rows) ==
    IF rows = <<>> THEN 0
    ELSE total_bits_original(Tail(rows)) + Head(rows).original_bits * PlaceholderCount

\* lines 153, 164: total_bits_optimized after the rows given
RECURSIVE total_bits_optimized(_)
total_bits_optimized(rows) ==
    IF rows = <<>> THEN 0
    ELSE total_bits_optimized(Tail(rows)) + Head(rows).optimal_bits * PlaceholderCount

\* the caller calls generate_report(output_path): the file holds the number
\* of layers analysed (line 145), the rows (line 160) and, unless the division
\* of line 167 raises ZeroDivisionError for an empty map, the overall savings
\* (line 168); the with statement closes the file either way
generate_report(output_path) ==
    /\ component = "analyzer"
    /\ pc = "idle"
    /\ n_calls < MaxCalls
    /\ n_calls' = n_calls + 1
    /\ LET rows == [i \in 1..Len(map_order) |->
                      ReportRow(map_order[i], sensitivity_map[map_order[i]])]
           raises == total_bits_original(rows) = 0
           file == [analysed |-> Len(map_order),
                    rows |-> rows,
                    overall |-> IF raises THEN <<>>
                                ELSE <<Format1f(total_bits_optimized(rows),
                                                total_bits_original(rows))>>]
       IN  /\ fs' = [dirs |-> fs.dirs,
                     files |-> Overwrite(fs.files, <<output_path>> :> file)]
           /\ probe' = [op |-> "generate_report",
                        output_path |-> output_path,
                        error |-> IF raises THEN "ZeroDivisionError" ELSE ""]
    /\ UNCHANGED <<component, analyzerVars, num_clusters, codebooks, indices,
                   key_order, np_random, q_outcome, d_outcome, s_outcome, hist>>

Next ==
    \/ \E call \in AnalyzeCallInputs : analyze_layer(call[1], call[2])
    \/ sweep_step
    \/ sweep_step_raises
    \/ sweep_finish
    \/ analyze_all_layers
    \/ all_layers_step
    \/ \E output_path \in ReportPathInputs : generate_report(output_path)
    \/ \E w \in QTensorInputs, name \in QLayerInputs : quantize_layer_weights(w, name)
    \/ /\ component = "clustering"
       /\ \E arg \in DequantizeInputs \cup StoredPairs :
              dequantize_weights(arg.indices, arg.codebook)
    \/ \E output_dir \in ExportDirInputs : save_to_fpga_format(output_dir)
    \/ \E output_dir \in ExportDirInputs : save_to_fpga_format_fails(output_dir)
    \/ \E size \in ReportSizeInputs : report_compression(size)
    \/ /\ component = "uniform"
       /\ \E call \in UniformCallInputs : call_quantize_weights(call[1], call[2])
    \/ /\ component = "activation"
       /\ \E activation \in ActivationInputs, out_bits \in OutBitsInputs :
              logarithmic_quantize_activation(activation, out_bits)
    \/ /\ component = "activation"
       /\ \E arg \in DequantizeActivationArgs, original_max \in OriginalMaxInputs :
              logarithmic_dequantize_activation(arg.quantized, original_max, arg.out_bits)
    \/ /\ component = "config"
       /\ \E map \in ConfigMapInputs, output_path \in ConfigPathInputs :
              generate_mixed_precision_config(map, output_path)

Spec == Init /\ [][Next]_vars

-----------------------------------------------------------------------------
(* Properties *)

ConvPositions ==
    {i \in 1..Len(ModelLayers) : Contains(<<"c","o","n","v">>, Chars(ModelLayers[i]))}

Pos(n) == CHOOSE i \in 1..Len(ModelLayers) : ModelLayers[i] = n

\* C1: as long as no evaluation has raised, whenever no sweep is running (the
\* caller has control, or analyze_all_layers is between two layers) every layer
\* of the model holds the weights it had before the first call.
C1_WeightsRestored ==
    (component = "analyzer" /\ pc \in {"idle", "all"} /\ n_raises = 0)
        => weights = InitWeights

\* a sweep that installed weights other than the originals has returned
C1_Witness ==
    /\ pc = "idle"
    /\ n_raises = 0
    /\ outcome.kind = "ok"
    /\ \E w \in DOMAIN oracle : w # InitWeights
    /\ weights = InitWeights

\* C2: when an evaluation raises during analyze_layer, the model holds the
\* weights it had on entry to that analyze_layer once the error has reached the
\* caller.
C2_RestoredOnRaise ==
    (pc = "idle" /\ outcome.kind = "raise" /\ outcome.error = "EvaluationError")
        => weights = hist.entry_weights

\* C3: the optimal_bits analyze_layer returns and stores is the smallest
\* bit-width of the range whose accuracy is at least 0.99 times the accuracy at
\* the largest bit-width, the largest bit-width if there is none, and always
\* lies in the range.
C3_OptimalBits ==
    (outcome.kind = "ok" /\ outcome.op = "analyze_layer") =>
        LET lo == outcome.bit_range[1]
            hi == outcome.bit_range[2]
            curve == outcome.sensitivity_curve
            ob == outcome.optimal_bits
            Q == {b \in lo..hi : /\ curve[b] # NaN
                                 /\ curve[hi] # NaN
                                 /\ 100 * curve[b] >= 99 * curve[hi]}
        IN  /\ lo <= ob /\ ob <= hi
            /\ Q = {} => ob = hi
            /\ Q # {} => (ob \in Q /\ \A b \in Q : ob <= b)
            /\ outcome.layer_name \in DOMAIN sensitivity_map
            /\ sensitivity_map[outcome.layer_name].optimal_bits = ob

\* a sweep whose first candidate misses the threshold and whose second meets
\* it exactly (99 of 100 against a baseline of 100 of 100)
C3_Witness ==
    /\ outcome.kind = "ok"
    /\ outcome.op = "analyze_layer"
    /\ outcome.bit_range = <<2, 4>>
    /\ outcome.sensitivity_curve[2] = NumImages - 2
    /\ outcome.sensitivity_curve[3] = NumImages - 1
    /\ outcome.sensitivity_curve[4] = NumImages
    /\ outcome.optimal_bits = 3

\* C4: when analyze_all_layers has ended, it has returned the map and has swept
\* every convolutional layer, whether or not a layer's analysis failed.
C4_LaterLayersAnalysed ==
    (pc = "idle" /\ hist.call.op = "analyze_all_layers") =>
        /\ outcome.kind = "ok"
        /\ outcome.op = "analyze_all_layers"
        /\ {hist.started[i][1] : i \in 1..Len(hist.started)}
               = {ModelLayers[p] : p \in ConvPositions}

\* C5: when an evaluation of analyze_layer has raised, the sensitivity map is
\* the map of the moment analyze_layer was entered: no record was created or
\* altered.
C5_MapUnchangedOnFailure ==
    (outcome.kind = "raise" /\ outcome.error = "EvaluationError")
        => sensitivity_map = hist.entry_map

\* an evaluation raised after part of the curve had been measured, with
\* records of other layers in the map
C5_Witness ==
    /\ outcome.kind = "raise"
    /\ outcome.error = "EvaluationError"
    /\ DOMAIN frame.sensitivity_curve # {}
    /\ DOMAIN sensitivity_map # {}
    /\ ~(frame.layer_name \in DOMAIN sensitivity_map)

\* C6: analyze_layer with a name the model has no layer for ends with
\* LayerNotFound, with the weights and the map as they were at the call.
C6_LayerNotFound ==
    (/\ hist.call.op = "analyze_layer"
     /\ ~(\E i \in 1..Len(ModelLayers) : ModelLayers[i] = hist.call.layer_name))
        => /\ pc = "idle"
           /\ outcome.kind = "raise"
           /\ outcome.error = "LayerNotFound"
           /\ weights = hist.call_weights
           /\ sensitivity_map = hist.entry_map

\* the call was made on a model with a record in the map
C6_Witness ==
    /\ outcome.kind = "raise"
    /\ outcome.error = "LayerNotFound"
    /\ DOMAIN sensitivity_map # {}

\* C7: with an empty dataset, an analyze_layer call on an existing layer and a
\* non-empty bit range ends with EvaluationError and stores no record.
C7_EmptyDatasetFails ==
    (/\ n_images = 0
     /\ hist.call.op = "analyze_layer"
     /\ \E i \in 1..Len(ModelLayers) : ModelLayers[i] = hist.call.layer_name
     /\ hist.call.bit_range[1] <= hist.call.bit_range[2]
     /\ pc = "idle")
        => /\ outcome.kind = "raise"
           /\ outcome.error = "EvaluationError"
           /\ sensitivity_map = hist.entry_map

C9_RecordIsLatestSweep ==
    \A n \in DOMAIN sensitivity_map :
        /\ n \in DOMAIN hist.last
        /\ LET br == hist.last[n].bit_range
               rec == sensitivity_map[n]
           IN  /\ rec = hist.last[n].rec
               /\ DOMAIN rec.sensitivity_curve = br[1]..br[2]
               /\ rec.optimal_bits \in DOMAIN rec.sensitivity_curve
               /\ br[1] = br[2] =>
                     /\ Cardinality(DOMAIN rec.sensitivity_curve) = 1
                     /\ rec.optimal_bits = br[1]

\* a record over 2..4 has been replaced by the record of a sweep over 3..3
C9_Witness ==
    /\ pc = "idle"
    /\ outcome.kind = "ok"
    /\ outcome.bit_range = <<3, 3>>
    /\ outcome.layer_name \in DOMAIN hist.entry_map
    /\ DOMAIN hist.entry_map[outcome.layer_name].sensitivity_curve = 2..4
    /\ DOMAIN sensitivity_map[outcome.layer_name].sensitivity_curve = {3}

-----------------------------------------------------------------------------
(* _quantize_weights on its own *)

\* the sum over all elements of (original - image)^2; the mean-squared error
\* is this sum divided by the number of elements
SqErrTensor(w, img) ==
    SumOver([i \in 1..Len(w.v) |-> (w.v[i] - img.v[i]) * (w.v[i] - img.v[i])],
            1..Len(w.v))

SqErr(ws, imgs) == SumOver([i \in 1..Len(ws) |-> SqErrTensor(ws[i], imgs[i])], 1..Len(ws))

\* C11 as stated: for every weight list and bit-widths b1 < b2, the mean-squared
\* error of the quantize-then-dequantize image at b2 is at most the error at b1
C11_MonotonicError ==
    probe.op = "_quantize_weights" =>
        \A b1, b2 \in DOMAIN probe.images :
            b1 < b2 => SqErr(probe.weights, probe.images[b2])
                         <= SqErr(probe.weights, probe.images[b1])

\* C11 amended: the error at b2 is at most the error at b1 when 2^b1 - 1 divides
\* 2^b2 - 1, that is when b1 divides b2: the levels of b1 are then levels of b2
C11_MonotonicErrorNested ==
    probe.op = "_quantize_weights" =>
        \A b1, b2 \in DOMAIN probe.images :
            (b1 < b2 /\ b2 % b1 = 0)
                => SqErr(probe.weights, probe.images[b2])
                     <= SqErr(probe.weights, probe.images[b1])

C11_Witness ==
    /\ probe.op = "_quantize_weights"
    /\ {2, 4} \subseteq DOMAIN probe.images
    /\ SqErr(probe.weights, probe.images[4]) < SqErr(probe.weights, probe.images[2])

\* C12: for a layer whose weight list is a kernel tensor and a bias vector, the
\* bias installed at every candidate bit-width of a sweep is the original bias
C12_BiasNeverQuantized ==
    (pc = "sweep" /\ Len(frame.original_weights) = 2)
        => weights[frame.layer_name][2] = frame.original_weights[2]

-----------------------------------------------------------------------------
(* WeightClusteringQuantizer *)

AllIn(seq, S) == \A p \in 1..Len(seq) : seq[p] \in S

\* C13: after a successful quantize_layer_weights with num_clusters = k the
\* codebook returned and stored has exactly k entries, and the index tensor
\* returned and stored has the shape of the input tensor and every element,
\* as cast to the unsigned storage type, in 0..k-1
C13_CodebookAndIndices ==
    q_outcome.kind = "ok" =>
        /\ Len(q_outcome.codebook.c) = num_clusters
        /\ q_outcome.indices.shape = hist.qarg.shape
        /\ Len(q_outcome.indices.v) = TensorSize(hist.qarg.shape)
        /\ AllIn(q_outcome.indices.v, 0..(num_clusters - 1))
        /\ codebooks[q_outcome.layer_name] = q_outcome.codebook
        /\ indices[q_outcome.layer_name] = q_outcome.indices

\* a 2 x 2 tensor has been clustered with k = 3 and every index is in use
C13_Witness ==
    /\ q_outcome.kind = "ok"
    /\ num_clusters = 3
    /\ q_outcome.indices.shape = <<2, 2>>
    /\ {q_outcome.indices.v[p] : p \in 1..4} = {0, 1, 2}

\* C14: for a codebook and an index tensor of valid indices, dequantize_weights
\* returns a tensor of the shape of the index tensor whose element at position
\* p is codebook[index[p]]; every value it produces is an entry of the codebook
C14_ClosedSet ==
    (/\ d_outcome.kind # "none"
     /\ AllIn(d_outcome.indices.v, 0..(Len(d_outcome.codebook.c) - 1)))
        => /\ d_outcome.kind = "ok"
           /\ d_outcome.result.shape = d_outcome.indices.shape
           /\ Len(d_outcome.result.v) = Len(d_outcome.indices.v)
           /\ d_outcome.result.unit = d_outcome.codebook.unit
           /\ \A p \in 1..Len(d_outcome.indices.v) :
                  /\ d_outcome.result.v[p] = d_outcome.codebook.c[d_outcome.indices.v[p] + 1]
                  /\ \E i \in 1..Len(d_outcome.codebook.c) :
                         d_outcome.result.v[p] = d_outcome.codebook.c[i]

\* the stored pair of a layer has been dequantized to several values
C14_Witness ==
    /\ d_outcome.kind = "ok"
    /\ \E n \in DOMAIN codebooks :
           /\ d_outcome.codebook = codebooks[n]
           /\ d_outcome.indices = indices[n]
    /\ d_outcome.indices.shape = <<2, 2>>
    /\ Cardinality({d_outcome.result.v[p] : p \in 1..4}) >= 2

\* C15: with num_clusters = 1, quantize_layer_weights on a non-empty tensor
\* returns indices that are all 0 and a codebook of one entry, the mean of
\* the input weights
C15_SingleCluster ==
    (q_outcome.kind # "none" /\ num_clusters = 1 /\ Len(hist.qarg.v) > 0)
        => /\ q_outcome.kind = "ok"
           /\ AllIn(q_outcome.indices.v, {0})
           /\ Len(q_outcome.codebook.c) = 1
           /\ q_outcome.codebook.c[1] * Len(hist.qarg.v)
                = q_outcome.codebook.unit * SumOver(hist.qarg.v, 1..Len(hist.qarg.v))

\* a tensor of several values has been clustered with k = 1
C15_Witness ==
    /\ q_outcome.kind = "ok"
    /\ num_clusters = 1
    /\ hist.qarg.v = <<-5, 1, 1, 9>>

\* C16: quantize_layer_weights fails with the invalid-cluster-count error when
\* num_clusters < 1 and with the empty-tensor error when the tensor has no
\* element, and a failed call leaves codebooks and indices as they were
C16_InvalidInputFails ==
    q_outcome.kind # "none" =>
        /\ num_clusters < 1 =>
              /\ q_outcome.kind = "raise"
              /\ q_outcome.error = "InvalidParameterError: n_clusters"
        /\ (num_clusters >= 1 /\ Len(hist.qarg.v) = 0) =>
              /\ q_outcome.kind = "raise"
              /\ q_outcome.error = "ValueError: 0 samples"
        /\ q_outcome.kind = "raise" =>
              /\ codebooks = hist.qentry.codebooks
              /\ indices = hist.qentry.indices

\* a call with an empty tensor has failed for a layer that has an entry
C16_Witness ==
    /\ q_outcome.kind = "raise"
    /\ q_outcome.error = "ValueError: 0 samples"
    /\ q_outcome.layer_name \in DOMAIN codebooks

\* C17: codebooks and indices have the same layer names, each with the pair of
\* the most recent successful call for that name; a call replaces the pair of
\* its layer and leaves the pairs of the other layers as they were
C17_OnePairPerLayer ==
    /\ DOMAIN codebooks = DOMAIN indices
    /\ DOMAIN codebooks = DOMAIN hist.qlast
    /\ \A n \in DOMAIN hist.qlast :
           /\ codebooks[n] = hist.qlast[n].codebook
           /\ indices[n] = hist.qlast[n].indices
    /\ q_outcome.kind = "ok" =>
           \A n \in DOMAIN hist.qentry.codebooks \ {q_outcome.layer_name} :
               /\ codebooks[n] = hist.qentry.codebooks[n]
               /\ indices[n] = hist.qentry.indices[n]

\* with two layers stored, a call has replaced the pair of its layer by another
C17_Witness ==
    /\ q_outcome.kind = "ok"
    /\ Cardinality(DOMAIN codebooks) = 2
    /\ q_outcome.layer_name \in DOMAIN hist.qentry.codebooks
    /\ hist.qentry.codebooks[q_outcome.layer_name] # codebooks[q_outcome.layer_name]
    /\ hist.qentry.indices[q_outcome.layer_name] # indices[q_outcome.layer_name]

AllIdentical(v) == \A p \in 1..Len(v) : v[p] = v[1]

\* C18: quantize_layer_weights on a tensor of identical elements, at least
\* num_clusters of them, returns normally within the iteration cap: every
\* element has the same index, the centroid of that index is the common value,
\* and the codebook has num_clusters entries
C18_DegenerateInput ==
    (/\ q_outcome.kind # "none"
     /\ num_clusters >= 1
     /\ Len(hist.qarg.v) >= num_clusters
     /\ AllIdentical(hist.qarg.v))
        => /\ q_outcome.kind = "ok"
           /\ q_outcome.n_iter <= max_iter
           /\ AllIdentical(q_outcome.indices.v)
           /\ q_outcome.codebook.c[q_outcome.indices.v[1] + 1]
                = hist.qarg.v[1] * q_outcome.codebook.unit
           /\ Len(q_outcome.codebook.c) = num_clusters

\* three identical elements have been clustered with k = 3
C18_Witness ==
    /\ q_outcome.kind = "ok"
    /\ num_clusters = 3
    /\ hist.qarg.v = <<7, 7, 7>>

\* ceil(log2 k): the least b with 2^b >= k
LeastBits(k) == CHOOSE b \in 0..16 : Pow2(b) >= k /\ (b = 0 \/ Pow2(b - 1) < k)

RatioAsStated(report, n, k) ==
    /\ report.original_size = 32 * n
    /\ report.compressed_size = LeastBits(k) * n + k * 32

\* C19 as stated: the compression ratio is (32 n) / (ceil(log2 k) n + 32 k),
\* which for k = 16 and n = 512 is about 5.33
C19_CompressionRatio ==
    /\ q_outcome.kind = "ok" =>
           RatioAsStated(q_outcome.report, TensorSize(hist.qarg.shape), num_clusters)
    /\ probe.op = "compression_report" =>
           /\ RatioAsStated(probe.report, probe.size, probe.num_clusters)
           /\ (probe.num_clusters = 16 /\ probe.size = 512) =>
                  /\ 5325 * probe.report.compressed_size <= 1000 * probe.report.original_size
                  /\ 1000 * probe.report.original_size < 5335 * probe.report.compressed_size

\* C19 amended: the compression ratio is (32 n) / (ceil(log2 k) n + 32 k),
\* which for k = 16 and n = 512 is 16384 / 2560 = 6.4
C19_CompressionRatioValue ==
    /\ q_outcome.kind = "ok" =>
           RatioAsStated(q_outcome.report, TensorSize(hist.qarg.shape), num_clusters)
    /\ probe.op = "compression_report" =>
           /\ RatioAsStated(probe.report, probe.size, probe.num_clusters)
           /\ (probe.num_clusters = 16 /\ probe.size = 512) =>
                  10 * probe.report.original_size = 64 * probe.report.compressed_size

C19_Witness ==
    /\ probe.op = "compression_report"
    /\ probe.num_clusters = 16
    /\ probe.size = 512

CharValue(ch) == CHOOSE d \in 0..9 : DigitChars[d + 1] = ch

\* the number a sequence of digit characters writes in the given base
RECURSIVE DigitsValue(_, _)
DigitsValue(t, base) ==
    IF t = <<>> THEN 0
    ELSE base * DigitsValue(SubSeq(t, 1, Len(t) - 1), base) + CharValue(t[Len(t)])

\* the number a bit pattern writes: binary digits, after a sign if any
PatternValue(t) ==
    IF t[1] = "-" THEN -DigitsValue(Tail(t), 2) ELSE DigitsValue(t, 2)

IsPattern(t) ==
    /\ Len(t) >= 20
    /\ AllIn(IF t[1] = "-" THEN Tail(t) ELSE t, {"0", "1"})

C21_NoPartialFile ==
    (s_outcome.kind = "raise" /\ s_outcome.path # <<>>) =>
        \/ s_outcome.path \notin DOMAIN fs.files
        \/ IF s_outcome.path[3] = "_indices.bin"
           THEN Len(fs.files[s_outcome.path].elems)
                    = TensorSize(indices[s_outcome.path[2]].shape)
           ELSE Len(fs.files[s_outcome.path].lines) = num_clusters

-----------------------------------------------------------------------------
(* The logarithmic quantizer of activations *)

Clip(x, lo, hi) == IF x < lo THEN lo ELSE IF x > hi THEN hi ELSE x

\* C22: every code logarithmic_quantize_activation returns is
\* clip(round(log2(x + 1) * scale), 0, 2^out_bits - 1) with
\* scale = (2^out_bits - 1) / (max log2(x + 1) + eps), and lies in
\* 0..2^out_bits - 1, also for out_bits > 8
C22_LogCodes ==
    probe.op \in {"logarithmic_quantize_activation", "logarithmic_dequantize_activation"} =>
        LET x == [p \in 1..Len(probe.q.activation) |-> ReLU(probe.q.activation[p])]
            top == Pow2(probe.q.out_bits) - 1
        IN  \A p \in 1..Len(probe.q.quantized) :
               /\ probe.q.quantized[p] \in 0..top
               /\ \E code \in 0..top :
                     \* code = round(t * top / (max_t + eps)): ties round down
                     /\ 2 * Log2p1(SeqMax(x)) * code
                            >= 2 * Log2p1(x[p]) * top - Log2p1(SeqMax(x))
                     /\ 2 * Log2p1(SeqMax(x)) * code
                            < 2 * Log2p1(x[p]) * top + Log2p1(SeqMax(x))
                            \/ Log2p1(SeqMax(x)) = 0
                     /\ Log2p1(SeqMax(x)) = 0 => code = 0
                     /\ probe.q.quantized[p] = Clip(code, 0, top)

\* the largest element of the tensor logarithmic_quantize_activation saw last,
\* after the ReLU
LastActivationMax ==
    SeqMax([p \in 1..Len(probe.q.activation) |-> ReLU(probe.q.activation[p])])

\* the distance between the values of the two highest codes when the largest
\* activation is original_max: the quantization step at the top of the range
TopStep(original_max, out_bits) ==
    DecodeValue(Pow2(out_bits) - 1, original_max, out_bits)
        - DecodeValue(Pow2(out_bits) - 2, original_max, out_bits)

\* C23: with out_bits = 8 and a largest element >= 1, every position that
\* holds the largest element gets the code 255, and decoding the returned
\* tensor with original_max = that largest element gives there a value no
\* further from it than one quantization step
C23_TopCode ==
    (/\ probe.op \in {"logarithmic_quantize_activation",
                      "logarithmic_dequantize_activation"}
     /\ probe.q.quantized # <<>>
     /\ probe.q.out_bits = 8
     /\ LastActivationMax >= 1) =>
        \A p \in 1..Len(probe.q.activation) :
            probe.q.activation[p] = LastActivationMax =>
                /\ probe.q.quantized[p] = 255
                /\ (/\ probe.op = "logarithmic_dequantize_activation"
                    /\ probe.d.quantized = probe.q.quantized
                    /\ probe.d.out_bits = 8
                    /\ probe.d.original_max = LastActivationMax) =>
                        Abs(probe.d.activation[p] - LastActivationMax * ActUnit)
                            <= TopStep(LastActivationMax, 8)

\* the tensor [0, 7, 100] was quantized to 8 bits and its codes decoded with
\* original_max = 100: the code of 100 is 255 and decodes to 100 within 0.02
C23_Witness ==
    /\ probe.op = "logarithmic_dequantize_activation"
    /\ probe.q.activation = <<0, 7, 100>>
    /\ probe.q.out_bits = 8
    /\ probe.q.quantized[3] = 255
    /\ probe.d.quantized = probe.q.quantized
    /\ probe.d.out_bits = 8
    /\ probe.d.original_max = 100
    /\ Abs(probe.d.activation[3] - 100 * ActUnit) <= 200
    /\ TopStep(100, 8) > 200

-----------------------------------------------------------------------------
(* The mixed-precision configuration *)

\* what each layer is in the network, whatever it is called
LayerType(layer_name) ==
    CASE layer_name = "conv1_dw" -> "depthwise"
      [] layer_name = "depthwise_conv2d" -> "depthwise"
      [] layer_name = "conv1_pw" -> "pointwise"
      [] layer_name = "conv1_dw_proj" -> "pointwise"

ConfigReturned == probe.op = "generate_mixed_precision_config"

\* the optimal_bits the map passed holds for the layer
OptimalBitsOf(map, layer_name) ==
    map[CHOOSE j \in 1..Len(map) : map[j].layer_name = layer_name].optimal_bits

\* C24: the config returned has exactly the layers of the map as its keys; a
\* depthwise layer gets weight = optimal_bits and activation =
\* max(optimal_bits, 8), a pointwise layer weight = optimal_bits and
\* activation = optimal_bits + 1; the config is a function of the map
C24_ConfigPerLayer ==
    ConfigReturned =>
        LET map == probe.sensitivity_map
        IN  /\ DOMAIN probe.config = {map[i].layer_name : i \in 1..Len(map)}
            /\ \A n \in DOMAIN probe.config :
                  LET ob == OptimalBitsOf(map, n)
                  IN  IF LayerType(n) = "depthwise"
                      THEN probe.config[n] =
                              [weight |-> ob, activation |-> IF ob >= 8 THEN ob ELSE 8]
                      ELSE probe.config[n] = [weight |-> ob, activation |-> ob + 1]
            /\ map = <<[layer_name |-> "conv1_dw", optimal_bits |-> 8],
                       [layer_name |-> "conv1_pw", optimal_bits |-> 6]>>
                  => probe.config = ("conv1_dw" :> [weight |-> 8, activation |-> 8])
                                    @@ ("conv1_pw" :> [weight |-> 6, activation |-> 7])

\* C28: two layers of the same type and the same optimal_bits get the same
\* entry whatever their names are
C28_ClassifiedByType ==
    ConfigReturned =>
        LET map == probe.sensitivity_map
        IN  \A i, j \in 1..Len(map) :
               (/\ LayerType(map[i].layer_name) = LayerType(map[j].layer_name)
                /\ map[i].optimal_bits = map[j].optimal_bits)
                   => probe.config[map[i].layer_name] = probe.config[map[j].layer_name]

\* C29: every entry of the config has weight = optimal_bits and
\* activation >= weight; an entry classified as depthwise (its name holds
\* "dw") has activation >= 8, any other entry has activation = weight + 1
C29_ConfigInvariant ==
    ConfigReturned =>
        \A n \in DOMAIN probe.config :
            LET e == probe.config[n]
            IN  /\ e.weight = OptimalBitsOf(probe.sensitivity_map, n)
                /\ e.activation >= e.weight
                /\ IF Contains(<<"d","w">>, Chars(n))
                   THEN e.activation >= 8
                   ELSE e.activation = e.weight + 1

\* a config with an entry classified as depthwise whose optimal_bits exceed 8
\* and an entry classified otherwise
C29_Witness ==
    /\ ConfigReturned
    /\ "conv1_dw" \in DOMAIN probe.config
    /\ probe.config["conv1_dw"] = [weight |-> 16, activation |-> 16]
    /\ "depthwise_conv2d" \in DOMAIN probe.config
    /\ probe.config["depthwise_conv2d"] = [weight |-> 4, activation |-> 5]

-----------------------------------------------------------------------------
(* The report of the analyzer *)

RECURSIVE SumLen(_)
SumLen(tensors) ==
    IF tensors = <<>> THEN 0 ELSE Len(Head(tensors).v) + SumLen(Tail(tensors))

\* the number of weights of a layer of the model
ParameterCount(layer_name) == SumLen(weights[layer_name])

RECURSIVE WeightedBits(_, _)
WeightedBits(rows, optimized) ==
    IF rows = <<>> THEN 0
    ELSE WeightedBits(Tail(rows), optimized)
           + ParameterCount(Head(rows).layer_name)
               * (IF optimized THEN Head(rows).optimal_bits ELSE Head(rows).original_bits)

\* C25: the overall savings written by generate_report weigh every layer by
\* its number of weights
C25_WeightedSavings ==
    \A path \in {<<p>> : p \in ReportPathInputs} \cap DOMAIN fs.files :
        LET file == fs.files[path]
        IN  file.overall # <<>> =>
               file.overall[1] = Format1f(WeightedBits(file.rows, TRUE),
                                          WeightedBits(file.rows, FALSE))

-----------------------------------------------------------------------------
(* The sweep of analyze_layer *)

\* the model's weights when the candidate b of the running sweep is measured,
\* were every candidate quantized from the weights the sweep was entered with
MeasuredWeights(b) ==
    [hist.entry_weights EXCEPT ![frame.layer_name] =
        quantize_weights(hist.entry_weights[frame.layer_name], b)]

\* C26: a sweep starts at the lower bound of the range with an empty curve;
\* every pass of its loop that records an accuracy takes the next bit-width
\* up, installs the image of the entry snapshot at that bit-width, and
\* records under it, leaving the earlier entries, the accuracy predict gives
\* with those weights installed
C26_SweepOrder ==
    [][/\ (pc # "sweep" /\ pc' = "sweep") =>
             /\ frame'.bits = frame'.bit_range[1]
             /\ frame'.sensitivity_curve = EmptyCurve
             /\ frame'.original_weights = hist'.entry_weights[frame'.layer_name]
       /\ (pc = "sweep" /\ frame'.sensitivity_curve # frame.sensitivity_curve) =>
             LET b == frame.bits
                 measured == MeasuredWeights(b)
             IN  /\ frame'.bits = b + 1
                 /\ b \notin DOMAIN frame.sensitivity_curve
                 /\ weights' = measured
                 /\ DOMAIN frame'.sensitivity_curve = DOMAIN frame.sensitivity_curve \cup {b}
                 /\ \A c \in DOMAIN frame.sensitivity_curve :
                       frame'.sensitivity_curve[c] = frame.sensitivity_curve[c]
                 /\ IF n_images = 0 THEN frame'.sensitivity_curve[b] = NaN
                    ELSE /\ measured \in DOMAIN oracle'
                         /\ frame'.sensitivity_curve[b] = oracle'[measured]]_vars

\* a sweep that has measured three candidates at least, the last of which
\* left other weights installed than the entry snapshot and than the
\* candidate before it
C26_Witness ==
    /\ pc = "sweep"
    /\ frame.bits >= frame.bit_range[1] + 3
    /\ n_images > 0
    /\ weights[frame.layer_name] # frame.original_weights
    /\ weights[frame.layer_name]
           # quantize_weights(frame.original_weights, frame.bits - 2)

-----------------------------------------------------------------------------
(* The codes of _quantize_weights *)

\* the codes and the image of tensor w at bit-width b: every code is in
\* 0..2^b - 1, the least element has the code 0, every element of the image
\* lies between the least and the largest element of w, a constant tensor
\* is its own image, and where the range of w is wide the largest
\* element has the code 2^b - 1
CodesInRange(w, codes, img, b, wide) ==
    LET w_min == SeqMin(w.v)
        w_max == SeqMax(w.v)
    IN  /\ \A p \in 1..Len(w.v) :
              /\ codes[p] \in 0..(Pow2(b) - 1)
              /\ w.v[p] = w_min => codes[p] = 0
              /\ (w.v[p] = w_max /\ wide) => codes[p] = Pow2(b) - 1
              /\ img.v[p] >= w_min
              /\ img.v[p] <= w_max
        /\ w_max = w_min => img = w

\* the weights [-1.0, 1.0] at 2 bits: the values of the four codes run from
\* -1.0 to 1.0 in steps of 0.667 (the inverse of the scale, 1.5), to within
\* 1e-4
ExampleLevels ==
    LET value(c) == Dequant(c, 3, 20000000, -10000000)
    IN  /\ value(0) = -10000000
        /\ value(3) = 10000000
        /\ \A c \in 0..2 :
              /\ value(c + 1) - value(c) \in 6666000..6668000
              /\ 15 * (value(c + 1) - value(c)) \in 99999000..100001000

-----------------------------------------------------------------------------
(* What a sweep leaves alone *)

\* C30: every step of a sweep of analyze_layer on a layer leaves the weights
\* of every other layer of the model, the set of layers and the test set as
\* they were
C30_SweepFrame ==
    [][pc = "sweep" =>
          /\ DOMAIN weights' = DOMAIN weights
          /\ \A n \in DOMAIN weights \ {frame.layer_name} : weights'[n] = weights[n]
          /\ n_images' = n_images]_vars

\* a sweep of conv1_dw is running after a sweep of bn1 has finished, with a
\* candidate installed in conv1_dw that differs from its weights of before,
\* the other layers holding theirs
C30_Witness ==
    /\ pc = "sweep"
    /\ frame.layer_name = "conv1_dw"
    /\ frame.bits > frame.bit_range[1]
    /\ weights["conv1_dw"] # InitWeights["conv1_dw"]
    /\ weights["conv1_pw"] = InitWeights["conv1_pw"]
    /\ weights["bn1"] = InitWeights["bn1"]
    /\ "bn1" \in DOMAIN sensitivity_map

=============================================================================
